---- MODULE Spec2Model ----
(***************************************************************************)
(* NistCrawler v0.2.3: scrape_nist_cve and output_to_csv.                  *)
(*                                                                         *)
(* The run is a sequential program; pc is its position.  The documents the *)
(* NVD site returns are the inputs: each is drawn when the code reads it.  *)
(* An optional value (Python None, a missing element, a file that does not *)
(* exist) is the empty sequence, a present one a one-element sequence.     *)
(* A float score is held in tenths (9.8 is 98).                            *)
(***************************************************************************)
EXTENDS Integers, Sequences, FiniteSets, TLC

VARIABLES
  pc,             \* the position of the run
  exc,            \* the exception that ended the run, "none" while none has
  discovery,      \* the answer to the first request (line 20), None before it
  total_vulns,    \* line 35, None before it
  num_pages,      \* line 39
  page,           \* line 42
  row,            \* line 55
  vuln_row,       \* line 56: the row last found
  present,        \* how many row slots held a row so far
  page_requests,  \* the startIndex of every page request sent (line 45)
  all_vulns,      \* line 15
  extracted,      \* the records in the order line 80 appended them
  console,        \* what was printed
  csvfile         \* the rows of the output file, None while it does not exist

vars == <<pc, exc, discovery, total_vulns, num_pages, page, row, vuln_row,
          present, page_requests, all_vulns, extracted, console, csvfile>>

None == << >>
Some(x) == <<x>>

\* results_per_page, the page size the offsets are computed from
results_per_page == 20
\* range(20): the row slots vuln-row-0 .. vuln-row-19 probed on a page
RowSlots == 20
\* the console rendering keeps this many characters of a description
TruncLen == 95
\* at most this many row slots hold a row in one run
MaxRows == 3

(***************************************************************************)
(* Text conversions.                                                       *)
(***************************************************************************)
Digits == {"0", "1", "2", "3", "4", "5", "6", "7", "8", "9"}

DigitVal(c) ==
  CASE c = "0" -> 0 [] c = "1" -> 1 [] c = "2" -> 2 [] c = "3" -> 3
    [] c = "4" -> 4 [] c = "5" -> 5 [] c = "6" -> 6 [] c = "7" -> 7
    [] c = "8" -> 8 [] c = "9" -> 9

CharAt(s, i) == SubSeq(s, i, i)

\* s.replace(",", "")
RECURSIVE StripCommas(_)
StripCommas(s) ==
  IF Len(s) = 0 THEN ""
  ELSE IF CharAt(s, 1) = "," THEN StripCommas(SubSeq(s, 2, Len(s)))
       ELSE CharAt(s, 1) \o StripCommas(SubSeq(s, 2, Len(s)))

IsDigits(s) == Len(s) > 0 /\ \A i \in 1..Len(s) : CharAt(s, i) \in Digits

RECURSIVE DigitsVal(_)
DigitsVal(s) ==
  IF Len(s) = 0 THEN 0
  ELSE 10 * DigitsVal(SubSeq(s, 1, Len(s) - 1)) + DigitVal(CharAt(s, Len(s)))

\* int(s): None stands for ValueError
ParseInt(s) ==
  IF IsDigits(s) THEN Some(DigitsVal(s))
  ELSE IF Len(s) > 1 /\ CharAt(s, 1) = "-" /\ IsDigits(SubSeq(s, 2, Len(s)))
       THEN Some(0 - DigitsVal(SubSeq(s, 2, Len(s))))
       ELSE None

\* float(s) in tenths, for the decimal literals d+ and d+.d; None stands for
\* ValueError
ParseFloat(s) ==
  IF IsDigits(s) THEN Some(10 * DigitsVal(s))
  ELSE IF /\ Len(s) >= 3
          /\ CharAt(s, Len(s) - 1) = "."
          /\ CharAt(s, Len(s)) \in Digits
          /\ IsDigits(SubSeq(s, 1, Len(s) - 2))
       THEN Some(10 * DigitsVal(SubSeq(s, 1, Len(s) - 2)) + DigitVal(CharAt(s, Len(s))))
       ELSE None

\* str(x) of a float held in tenths, as csv.DictWriter writes it
FormatFloat(t) == ToString(t \div 10) \o "." \o ToString(t % 10)

\* math.ceil(total / per_page)
CeilDiv(total, per_page) == 0 - ((0 - total) \div per_page)


(***************************************************************************)
(* The documents the site can return.                                      *)
(***************************************************************************)
ShortSummary == "Improper input validation."
\* 96 characters: one more than the console keeps
LongSummary == "Heap-based buffer overflow in the parser of the example product allows remote attackers to run c"
\* exactly 95 characters
EdgeSummary == "AAAAAAAAAAAAAAAAAAAAAAAAAAAAAAAAAAAAAAAAAAAAAAAAAAAAAAAAAAAAAAAAAAAAAAAAAAAAAAAAAAAAAAAAAAAAAAA"

Marker == "V3.1:"

Link1 == [text |-> "CVE-2024-0001", href |-> Some("/vuln/detail/CVE-2024-0001")]
Link2 == [text |-> "CVE-2024-0002", href |-> Some("/vuln/detail/CVE-2024-0002")]
LinkNoHref == [text |-> "CVE-2024-0003", href |-> None]

Date1 == "May 01, 2024; 10:15:09 AM -0400"

\* A tr element: the a, p, span#cvss3-link and published-on span it holds.
\* The text of the score span is its sequence of whitespace-separated words.
Row(link, summary, score, published) ==
  [link |-> link, summary |-> summary, score |-> score, published |-> published]

RowInputs ==
  { Row(Some(Link1), Some(ShortSummary), Some(<<Marker, "9.8", "CRITICAL">>), Some(Date1)),
    Row(Some(Link2), Some(LongSummary), Some(<<Marker, "4.0", "MEDIUM">>), Some(Date1)),
    Row(None, Some(EdgeSummary), Some(<<Marker, "9.8", "CRITICAL">>), None),
    Row(Some(Link2), Some(ShortSummary), Some(<<"V4.0:", "9.3", Marker, "10.0", "CRITICAL">>), Some(Date1)),
    Row(Some(Link1), Some(ShortSummary), Some(<<Marker, "0.0", "NONE">>), Some(Date1)),
    Row(Some(Link1), Some(ShortSummary), None, Some(Date1)),
    Row(Some(Link1), Some(ShortSummary), Some(<<"V3.0:", "7.5", "HIGH">>), Some(Date1)),
    Row(Some(Link1), Some(ShortSummary), Some(<<Marker>>), Some(Date1)),
    Row(Some(Link1), Some(ShortSummary), Some(<<Marker, "N/A">>), Some(Date1)),
    Row(Some(Link1), None, Some(<<Marker, "9.8", "CRITICAL">>), Some(Date1)),
    Row(Some(Link1), None, None, Some(Date1)),
    Row(Some(LinkNoHref), Some(ShortSummary), Some(<<Marker, "9.8", "CRITICAL">>), Some(Date1)),
    Row(Some(LinkNoHref), Some(ShortSummary), None, Some(Date1)) }

\* The text of the count element, when the document has one.
CountTexts == {"0", "1", "20", "40", "41", "0,020", "-5", "n/a", ""}

\* The answer to the first request: its status and its count element.
DiscoveryResponses ==
  [status : {200}, count : {None} \cup {Some(t) : t \in CountTexts}]
    \cup [status : {404, 503}, count : {None, Some("41")}]

\* The answer to a page request: its status and whether it holds the table.
PageResponses == [status : {200, 500}, table : BOOLEAN]

(***************************************************************************)
(* Extraction of one row (the body of the try block).                      *)
(***************************************************************************)
HasMarker(text) == \E i \in 1..Len(text) : text[i] = Marker

FirstMarker(text) == CHOOSE i \in 1..Len(text) :
                        text[i] = Marker /\ \A j \in 1..(i - 1) : text[j] # Marker

\* text.split("V3.1:")[1].split(): the words between the first marker and the
\* next one
RECURSIVE UpToMarker(_)
UpToMarker(text) ==
  IF Len(text) = 0 \/ Head(text) = Marker THEN << >>
  ELSE <<Head(text)>> \o UpToMarker(Tail(text))

AfterMarker(text) == UpToMarker(SubSeq(text, FirstMarker(text) + 1, Len(text)))

\* ParseScore without the test for the marker: the split of a text that has no
\* marker has one part only, and [1] raises IndexError
ParseScore_NoMarkerTest(score_column) ==
  IF score_column = None THEN [exc |-> "none", score_v3 |-> None]
  ELSE IF ~HasMarker(score_column[1]) \/ Len(AfterMarker(score_column[1])) = 0
       THEN [exc |-> "IndexError", score_v3 |-> None]
       ELSE IF ParseFloat(AfterMarker(score_column[1])[1]) = None
            THEN [exc |-> "ValueError", score_v3 |-> None]
            ELSE [exc |-> "none", score_v3 |-> ParseFloat(AfterMarker(score_column[1])[1])]

\* Lines 70-73: [exc, score_v3]
ParseScore(score_column) ==
  IF score_column # None /\ HasMarker(score_column[1])
  THEN LET words == AfterMarker(score_column[1])
       IN  IF Len(words) = 0 THEN [exc |-> "IndexError", score_v3 |-> None]
           ELSE IF ParseFloat(words[1]) = None
                THEN [exc |-> "ValueError", score_v3 |-> None]
                ELSE [exc |-> "none", score_v3 |-> ParseFloat(words[1])]
  ELSE [exc |-> "none", score_v3 |-> None]

\* if score_v3: None and 0.0 are both false
Truthy(score_v3) == score_v3 # None /\ score_v3[1] # 0

\* except (IndexError, ValueError, AttributeError)
Caught == {"IndexError", "ValueError", "AttributeError"}

NoRecord == << >>

\* Lines 62-86: the exception the row raises, if any, and the record it
\* appends, if any.  The first failing statement decides the exception.
ExtractRow(r) ==
  LET cve_number == IF r.link # None THEN r.link[1].text ELSE "N/A"
      parsed == ParseScore(r.score)
      published_date == IF r.published # None THEN r.published[1] ELSE "N/A"
  IN  IF r.link # None /\ r.link[1].href = None
      THEN [exc |-> "KeyError", rec |-> NoRecord]
      ELSE IF r.summary = None
      THEN [exc |-> "AttributeError", rec |-> NoRecord]
      ELSE IF parsed.exc # "none"
      THEN [exc |-> parsed.exc, rec |-> NoRecord]
      ELSE IF Truthy(parsed.score_v3)
      THEN [exc |-> "none",
            rec |-> <<[cve_number |-> cve_number,
                       score |-> parsed.score_v3,
                       description |-> r.summary[1],
                       published_date |-> published_date,
                       url |-> IF r.link # None
                               THEN "https://nvd.nist.gov" \o r.link[1].href[1]
                               ELSE "N/A"]>>]
      ELSE [exc |-> "none", rec |-> NoRecord]


(***************************************************************************)
(* Ranking, rendering and serialization.                                   *)
(***************************************************************************)
RECURSIVE Reverse(_)
Reverse(s) == IF Len(s) = 0 THEN << >> ELSE Reverse(Tail(s)) \o <<Head(s)>>

\* Binary insertion of x into an ascending run: x goes after every element
\* whose key is not greater than its own.
\* key=lambda x: x['score']
Key(x) == x.score[1]

RECURSIVE InsertAsc(_, _)
InsertAsc(sorted, x) ==
  IF Len(sorted) = 0 THEN <<x>>
  ELSE IF Key(x) < Key(Head(sorted)) THEN <<x>> \o sorted
       ELSE <<Head(sorted)>> \o InsertAsc(Tail(sorted), x)

RECURSIVE SortAsc(_)
SortAsc(s) ==
  IF Len(s) = 0 THEN << >>
  ELSE InsertAsc(SortAsc(SubSeq(s, 1, Len(s) - 1)), s[Len(s)])

\* SortDesc as an ascending sort reversed: equal scores change places
SortDesc_SortThenReverse(s) == Reverse(SortAsc(s))

\* all_vulns.sort(key=score, reverse=True): the list is reversed, sorted
\* ascending by a stable sort, and reversed again
SortDesc(s) == Reverse(SortAsc(Reverse(s)))

\* Line 100
Truncate(description) ==
  IF Len(description) > TruncLen
  THEN SubSeq(description, 1, TruncLen) \o "..."
  ELSE description

\* Lines 103-108, the score in tenths
Color(score) ==
  IF score >= 70 THEN "red" ELSE IF score >= 40 THEN "yellow" ELSE "green"

\* Line 111: one line of the console table
RenderLine(vuln) ==
  [kind |-> "table_row",
   cve_number |-> vuln.cve_number,
   color |-> Color(vuln.score[1]),
   score |-> FormatFloat(vuln.score[1]),
   description |-> Truncate(vuln.description),
   published_date |-> vuln.published_date,
   url |-> vuln.url]

RenderTable(vulns) == [i \in 1..Len(vulns) |-> RenderLine(vulns[i])]

fieldnames == <<"cve_number", "score", "description", "published_date", "url">>

\* CsvRow writing the description the console shows
CsvRow_Truncated(vuln) ==
  <<vuln.cve_number, FormatFloat(vuln.score[1]), Truncate(vuln.description),
    vuln.published_date, vuln.url>>

\* writer.writerow(vuln): the fields in the order of fieldnames, each as text
CsvRow(vuln) ==
  <<vuln.cve_number, FormatFloat(vuln.score[1]), vuln.description,
    vuln.published_date, vuln.url>>

\* Lines 126-132: the rows of the file
CsvRows(vulns) == <<fieldnames>> \o [i \in 1..Len(vulns) |-> CsvRow(vulns[i])]

(***************************************************************************)
(* The run.                                                                *)
(***************************************************************************)
Init ==
  /\ pc = "start"
  /\ exc = "none"
  /\ discovery = None
  /\ total_vulns = None
  /\ num_pages = 0
  /\ page = 0
  /\ row = 0
  /\ vuln_row = None
  /\ present = 0
  /\ page_requests = << >>
  /\ all_vulns = << >>
  /\ extracted = << >>
  /\ console = << >>
  /\ csvfile = None

\* Line 20: requests.get raises (no connection); nothing catches it
DiscoveryRaises ==
  /\ pc = "start"
  /\ pc' = "crashed"
  /\ exc' = "ConnectionError"
  /\ UNCHANGED <<discovery, total_vulns, num_pages, page, row, vuln_row, present,
                 page_requests, all_vulns, extracted, console, csvfile>>

\* Lines 22-24
DiscoveryFailed ==
  /\ pc = "start"
  /\ \E response \in DiscoveryResponses :
       /\ response.status # 200
       /\ discovery' = Some(response)
       /\ console' = Append(console, [kind |-> "failed", status |-> response.status])
  /\ pc' = "returned"
  /\ UNCHANGED <<exc, total_vulns, num_pages, page, row, vuln_row, present,
                 page_requests, all_vulns, extracted, csvfile>>

\* DiscoveryNoCount without its return: line 35 calls get_text on None
DiscoveryNoCount_NoReturn ==
  /\ pc = "start"
  /\ \E response \in DiscoveryResponses :
       /\ response.status = 200
       /\ response.count = None
       /\ discovery' = Some(response)
  /\ console' = Append(console, [kind |-> "no_matching_records"])
  /\ pc' = "crashed"
  /\ exc' = "AttributeError"
  /\ UNCHANGED <<total_vulns, num_pages, page, row, vuln_row, present,
                 page_requests, all_vulns, extracted, csvfile>>

\* Lines 29-32
DiscoveryNoCount ==
  /\ pc = "start"
  /\ \E response \in DiscoveryResponses :
       /\ response.status = 200
       /\ response.count = None
       /\ discovery' = Some(response)
  /\ console' = Append(console, [kind |-> "no_matching_records"])
  /\ pc' = "returned"
  /\ UNCHANGED <<exc, total_vulns, num_pages, page, row, vuln_row, present,
                 page_requests, all_vulns, extracted, csvfile>>

\* Line 35: int() raises ValueError; nothing catches it
DiscoveryBadCount ==
  /\ pc = "start"
  /\ \E response \in DiscoveryResponses :
       /\ response.status = 200
       /\ response.count # None
       /\ ParseInt(StripCommas(response.count[1])) = None
       /\ discovery' = Some(response)
  /\ pc' = "crashed"
  /\ exc' = "ValueError"
  /\ UNCHANGED <<total_vulns, num_pages, page, row, vuln_row, present,
                 page_requests, all_vulns, extracted, console, csvfile>>

\* Lines 35-39
DiscoveryOk ==
  /\ pc = "start"
  /\ \E response \in DiscoveryResponses :
       /\ response.status = 200
       /\ response.count # None
       /\ ParseInt(StripCommas(response.count[1])) # None
       /\ discovery' = Some(response)
       /\ total_vulns' = ParseInt(StripCommas(response.count[1]))
  /\ console' = Append(console, [kind |-> "total", total |-> total_vulns'[1]])
  /\ num_pages' = CeilDiv(total_vulns'[1], results_per_page)
  /\ page' = 0
  /\ pc' = "pages"
  /\ UNCHANGED <<exc, row, vuln_row, present, page_requests, all_vulns, extracted, csvfile>>

\* Line 43
StartIndex(p) == p * results_per_page

\* for page in range(num_pages): is there another page
MorePages == page < num_pages

\* Line 45: the page request is sent and requests.get raises
PageRaises ==
  /\ pc = "pages"
  /\ MorePages
  /\ page_requests' = Append(page_requests, StartIndex(page))
  /\ pc' = "crashed"
  /\ exc' = "ConnectionError"
  /\ UNCHANGED <<discovery, total_vulns, num_pages, page, row, vuln_row, present,
                 all_vulns, extracted, console, csvfile>>

\* Lines 43-52: the page has no results table
PageWithoutTable ==
  /\ pc = "pages"
  /\ MorePages
  /\ page_requests' = Append(page_requests, StartIndex(page))
  /\ \E response \in PageResponses : ~response.table
  /\ console' = Append(console, [kind |-> "no_results_on_page", page |-> page + 1])
  /\ page' = page + 1
  /\ UNCHANGED <<discovery, pc, exc, total_vulns, num_pages, row, vuln_row, present,
                 all_vulns, extracted, csvfile>>

\* Lines 43-49 and 55: the page has the table; the row loop starts
PageWithTable ==
  /\ pc = "pages"
  /\ MorePages
  /\ page_requests' = Append(page_requests, StartIndex(page))
  /\ \E response \in PageResponses : response.table
  /\ row' = 0
  /\ pc' = "rows"
  /\ UNCHANGED <<discovery, exc, total_vulns, num_pages, page, vuln_row, present,
                 all_vulns, extracted, console, csvfile>>

\* Lines 56-58: the slot holds no row
RowMissing ==
  /\ pc = "rows"
  /\ row < RowSlots
  /\ row' = row + 1
  /\ UNCHANGED <<discovery, pc, exc, total_vulns, num_pages, page, vuln_row, present,
                 page_requests, all_vulns, extracted, console, csvfile>>

\* Line 56: the slot holds a row
RowFound ==
  /\ pc = "rows"
  /\ row < RowSlots
  /\ present < MaxRows
  /\ \E r \in RowInputs : vuln_row' = Some(r)
  /\ present' = present + 1
  /\ pc' = "extract"
  /\ UNCHANGED <<discovery, exc, total_vulns, num_pages, page, row, page_requests,
                 all_vulns, extracted, console, csvfile>>

\* Lines 60-86: the row raises nothing; it is appended if it has a score
RowExtracted ==
  /\ pc = "extract"
  /\ ExtractRow(vuln_row[1]).exc = "none"
  /\ all_vulns' = all_vulns \o ExtractRow(vuln_row[1]).rec
  /\ extracted' = all_vulns'
  /\ row' = row + 1
  /\ pc' = "rows"
  /\ UNCHANGED <<discovery, exc, total_vulns, num_pages, page, vuln_row, present,
                 page_requests, console, csvfile>>

\* Lines 88-90: the row raises an exception the except clause names
RowError ==
  /\ pc = "extract"
  /\ ExtractRow(vuln_row[1]).exc \in Caught
  /\ console' = Append(console, [kind |-> "error_processing_row",
                                 error |-> ExtractRow(vuln_row[1]).exc])
  /\ row' = row + 1
  /\ pc' = "rows"
  /\ UNCHANGED <<discovery, exc, total_vulns, num_pages, page, vuln_row, present,
                 page_requests, all_vulns, extracted, csvfile>>

\* The row raises an exception the except clause does not name
RowRaises ==
  /\ pc = "extract"
  /\ ExtractRow(vuln_row[1]).exc \notin Caught \cup {"none"}
  /\ pc' = "crashed"
  /\ exc' = ExtractRow(vuln_row[1]).exc
  /\ UNCHANGED <<discovery, total_vulns, num_pages, page, row, vuln_row, present,
                 page_requests, all_vulns, extracted, console, csvfile>>

\* Line 55: the row loop ends; the next page
RowsDone ==
  /\ pc = "rows"
  /\ row = RowSlots
  /\ page' = page + 1
  /\ pc' = "pages"
  /\ UNCHANGED <<discovery, exc, total_vulns, num_pages, row, vuln_row, present,
                 page_requests, all_vulns, extracted, console, csvfile>>

\* Lines 93-111: the page loop has ended; sort and print the table
Report ==
  /\ pc = "pages"
  /\ ~MorePages
  /\ all_vulns' = SortDesc(all_vulns)
  /\ console' = console \o <<[kind |-> "table_header"]>> \o RenderTable(all_vulns')
  /\ pc' = "output_to_csv"
  /\ UNCHANGED <<extracted, discovery, exc, total_vulns, num_pages, page, row, vuln_row, present,
                 page_requests, csvfile>>

\* Lines 117-134
output_to_csv ==
  /\ pc = "output_to_csv"
  /\ csvfile' = Some(CsvRows(all_vulns))
  /\ console' = Append(console, [kind |-> "results_written"])
  /\ pc' = "done"
  /\ UNCHANGED <<discovery, exc, total_vulns, num_pages, page, row, vuln_row, present,
                 page_requests, all_vulns, extracted>>

Next ==
  \/ DiscoveryRaises
  \/ DiscoveryFailed
  \/ DiscoveryNoCount
  \/ DiscoveryBadCount
  \/ DiscoveryOk
  \/ PageRaises
  \/ PageWithoutTable
  \/ PageWithTable
  \/ RowMissing
  \/ RowFound
  \/ RowExtracted
  \/ RowError
  \/ RowRaises
  \/ RowsDone
  \/ Report
  \/ output_to_csv

Spec == Init /\ [][Next]_vars

\* The program is sequential: whenever it has a next statement it runs it.
FairSpec == Spec /\ WF_vars(Next)


(***************************************************************************)
(* Properties.                                                             *)
(***************************************************************************)
Terminal == pc \in {"returned", "crashed", "done"}

Printed(kind) == \E i \in 1..Len(console) : console[i].kind = kind

\* The least n with n * 20 >= total
CeilingOf(total) ==
  CHOOSE n \in 0..(total + 1) : n * 20 >= total /\ (n - 1) * 20 < total

Offsets(n) == [p \in 1..n |-> (p - 1) * 20]

\* The first response had status 200 and a count that parsed to total >= 0
DiscoveredTotal ==
  /\ discovery # None
  /\ discovery[1].status = 200
  /\ total_vulns # None
  /\ total_vulns[1] >= 0

\* C1: when discovery gave status 200 and a total >= 0, the run sends exactly
\* ceiling(total / 20) page requests, with offsets 0, 20, 40, ... in this
\* order, and no other.
C1_PageRequests ==
  (Terminal /\ DiscoveredTotal)
    => page_requests = Offsets(CeilingOf(total_vulns[1]))

\* What holds of the page requests in every run: they are an initial part of
\* 0, 20, 40, ..., and the whole of it once the page loop has ended.
PageRequestsOfTheLoop ==
  DiscoveredTotal =>
    /\ Len(page_requests) <= CeilingOf(total_vulns[1])
    /\ page_requests = Offsets(Len(page_requests))
    /\ pc \in {"output_to_csv", "done"}
         => page_requests = Offsets(CeilingOf(total_vulns[1]))

\* C2: a reported total of 0 takes the "no matching records" path: no page
\* request is sent and no output file is written.
C2_ZeroTotalWritesNothing ==
  (total_vulns = Some(0))
    => /\ page_requests = << >>
       /\ csvfile = None
       /\ Terminal => (pc = "returned" /\ Printed("no_matching_records"))

\* What a reported total of 0 does: no page request, an empty table, and a
\* file that holds the header row alone.
ZeroTotalWritesHeaderOnly ==
  (total_vulns = Some(0))
    => /\ page_requests = << >>
       /\ pc # "returned"
       /\ ~Printed("no_matching_records")
       /\ pc = "done" => csvfile = Some(<<fieldnames>>)

DiscoveryRejected ==
  /\ discovery # None
  /\ discovery[1].status # 200 \/ discovery[1].count = None

\* C3: when the first response has a status other than 200, or no count
\* element, the run ends with one message, having sent no page request,
\* produced no record and written no file.
C3_DiscoveryAbort ==
  DiscoveryRejected
    => /\ pc = "returned"
       /\ exc = "none"
       /\ Len(console) = 1
       /\ console[1].kind = IF discovery[1].status # 200
                            THEN "failed" ELSE "no_matching_records"
       /\ page_requests = << >>
       /\ all_vulns = << >>
       /\ csvfile = None

C3_Witness ==
  /\ pc = "returned"
  /\ DiscoveryRejected
  /\ discovery[1].status = 200
  /\ console = <<[kind |-> "no_matching_records"]>>

\* C4: no exception leaves scrape_nist_cve: a run ends either with the report
\* printed and the file written, or with a fatal message and no file.
C4_NoExceptionEscapes ==
  /\ exc = "none"
  /\ pc # "crashed"
  /\ Terminal =>
       \/ pc = "done" /\ Printed("table_header") /\ csvfile # None
       \/ pc = "returned" /\ csvfile = None /\ Len(console) = 1

Scores(s) == {s[i].score : i \in 1..Len(s)}

WithScore(s, score) == LET Test(x) == x.score = score IN SelectSeq(s, Test)

Occurrences(s, x) == Cardinality({i \in 1..Len(s) : s[i] = x})

\* The table rows of the console, in the order printed
TableRows == LET Test(line) == line.kind = "table_row" IN SelectSeq(console, Test)

\* C5: the collection that is rendered and serialized is sorted by score
\* descending, is a permutation of the records extraction accumulated, and
\* keeps records of equal score in the order of their extraction.
C5_SortedStable ==
  pc \in {"output_to_csv", "done"}
    => /\ \A i \in 1..(Len(all_vulns) - 1) :
            all_vulns[i].score[1] >= all_vulns[i + 1].score[1]
       /\ Len(all_vulns) = Len(extracted)
       /\ \A i \in 1..Len(extracted) :
            Occurrences(all_vulns, extracted[i]) = Occurrences(extracted, extracted[i])
       /\ \A score \in Scores(extracted) :
            WithScore(all_vulns, score) = WithScore(extracted, score)
       /\ Len(TableRows) = Len(all_vulns)
       /\ \A i \in 1..Len(all_vulns) :
            /\ TableRows[i].cve_number = all_vulns[i].cve_number
            /\ TableRows[i].url = all_vulns[i].url
            /\ ParseFloat(TableRows[i].score) = all_vulns[i].score

C5_Witness ==
  /\ pc = "done"
  /\ Len(all_vulns) = 3
  /\ all_vulns # extracted
  /\ \E i \in 1..2 :
       /\ all_vulns[i].score = all_vulns[i + 1].score
       /\ all_vulns[i] # all_vulns[i + 1]
  /\ extracted[1].score[1] < extracted[2].score[1]

\* The score element is absent or its text has no marker
ScoreUnmarked(r) ==
  r.score = None \/ \A i \in 1..Len(r.score[1]) : r.score[1][i] # Marker

\* The link and the summary raise nothing
LinkAndSummarySound(r) ==
  /\ r.summary # None
  /\ r.link = None \/ r.link[1].href # None

C7_RowFailureIsLocal ==
  [][(pc = "extract" /\ ExtractRow(vuln_row[1]).exc # "none")
       => /\ all_vulns' = all_vulns
          /\ exc' = "none"
          /\ pc' = "rows"
          /\ row' = row + 1]_vars

\* What holds of the exceptions the except clause names
CaughtRowFailureIsLocal ==
  [][(pc = "extract" /\ ExtractRow(vuln_row[1]).exc \in Caught)
       => /\ all_vulns' = all_vulns
          /\ exc' = "none"
          /\ pc' = "rows"
          /\ row' = row + 1]_vars

\* C8: a page without the results table adds no record and the run goes on:
\* every later page is requested and the run reaches the report and the file.
C8_SkippedPageRunCompletes ==
  (Terminal /\ Printed("no_results_on_page"))
    => /\ pc = "done"
       /\ csvfile # None
       /\ page_requests = Offsets(num_pages)

\* What holds of the skip itself: the records stay and the next page is next
SkippedPageKeepsRecords ==
  [][(pc = "pages" /\ pc' = "pages")
       => /\ all_vulns' = all_vulns
          /\ page' = page + 1
          /\ console' = Append(console, [kind |-> "no_results_on_page", page |-> page'])]_vars

\* C9: the file holds the header row and then one row per record, in the
\* order of the sorted collection and with the record's values; a summary of
\* more than 95 characters is cut to 95 and "..." on the console only.
C9_FileHoldsRecords ==
  pc = "done"
    => /\ csvfile # None
       /\ Len(csvfile[1]) = Len(all_vulns) + 1
       /\ csvfile[1][1] = <<"cve_number", "score", "description", "published_date", "url">>
       /\ Len(TableRows) = Len(all_vulns)
       /\ \A i \in 1..Len(all_vulns) :
            LET vuln == all_vulns[i]
                line == csvfile[1][i + 1]
                shown == TableRows[i].description
            IN  /\ Len(line) = 5
                /\ line[1] = vuln.cve_number
                /\ ParseFloat(line[2]) = vuln.score
                /\ line[3] = vuln.description
                /\ line[4] = vuln.published_date
                /\ line[5] = vuln.url
                /\ Occurrences(extracted, vuln) > 0
                /\ IF Len(vuln.description) > 95
                   THEN /\ Len(shown) = 98
                        /\ SubSeq(shown, 1, 95) = SubSeq(vuln.description, 1, 95)
                        /\ SubSeq(shown, 96, 98) = "..."
                   ELSE shown = vuln.description

C9_Witness ==
  /\ pc = "done"
  /\ Len(all_vulns) = 3
  /\ Len(all_vulns[3].description) = 96
  /\ Len(all_vulns[1].description) = 95
  /\ Len(csvfile[1][4][3]) = 96

\* The score element has the marker, and the word after it is a number of
\* the scale 0.0 to 10.0
ScoreInScale(r) ==
  /\ r.score # None
  /\ HasMarker(r.score[1])
  /\ Len(AfterMarker(r.score[1])) > 0
  /\ ParseFloat(AfterMarker(r.score[1])[1]) # None
  /\ ParseFloat(AfterMarker(r.score[1])[1])[1] \in 0..100

\* C10: a row whose summary is present and whose score element has the marker
\* and a number of the scale 0.0 to 10.0 after it, 0.0 included, adds exactly
\* one record.  (Stated for the rows whose link raises nothing.)
C10_ScoredRowAddsRecord ==
  [][(pc = "extract" /\ LinkAndSummarySound(vuln_row[1]) /\ ScoreInScale(vuln_row[1]))
       => /\ Len(all_vulns') = Len(all_vulns) + 1
          /\ SubSeq(all_vulns', 1, Len(all_vulns)) = all_vulns
          /\ all_vulns'[Len(all_vulns')].score = ParseFloat(AfterMarker(vuln_row[1].score[1])[1])]_vars

\* What holds of the scores other than 0.0
NonZeroScoredRowAddsRecord ==
  [][(/\ pc = "extract"
      /\ LinkAndSummarySound(vuln_row[1])
      /\ ScoreInScale(vuln_row[1])
      /\ ParseFloat(AfterMarker(vuln_row[1].score[1])[1]) # Some(0))
       => /\ Len(all_vulns') = Len(all_vulns) + 1
          /\ SubSeq(all_vulns', 1, Len(all_vulns)) = all_vulns
          /\ all_vulns'[Len(all_vulns')].score = ParseFloat(AfterMarker(vuln_row[1].score[1])[1])]_vars

====
